---- MODULE Spec2Model ----
(***************************************************************************)
(* Custom actions of the assistant: the GPA slot-filling form of           *)
(* NUM_GPA/actions/actions.py, the tuition form of                         *)
(* NUM_PAYMENT/actions/actions.py, the location lookup of                  *)
(* NUM_LOCATE/actions/actions.py and the course-catalog form of            *)
(* actions.py.  Each bot has its own specification; the slots of the other *)
(* bots stay as they are under it.                                         *)
(*                                                                         *)
(* Numbers that the code holds as Python floats (credit, score, the raw    *)
(* slot values) are held here in HALF units: the integer h stands for the  *)
(* float h/2, so 189 is the score 94.5 and 6 is the credit 3.0.  Grade     *)
(* points are held in tenths (37 is 3.7).  An optional value (a slot that  *)
(* may be null) is the empty sequence <<>> for None and <<v>> for v.       *)
(***************************************************************************)
EXTENDS Integers, Sequences, FiniteSets, TLC

VARIABLES
    number_of_courses,      \* slot: None or <<n>>, n an integer
    current_course_index,   \* slot: None or <<idx>>
    current_credit,         \* slot: None or <<credit in half units>>
    current_score,          \* slot: None or <<score in half units>>
    courses,                \* slot: sequence of [credit, score] (None and [] alike)
    msgs,                   \* what the last action sent through the dispatcher
    last,                   \* the validation step the form delivered last
    started,                \* history: None or <<n>>, the count the last session started with
    pairs,                  \* history: the (credit, score) pairs that session accepted, in order
    inSeq,                  \* history: no step of that session was delivered twice
    admission_group,        \* tuition slot: None or <<group>>
    faculty,                \* tuition slot: None or <<faculty>>
    general_credits,        \* tuition slot: None or <<credits in half units>>
    major_credits,          \* tuition slot: None or <<credits in half units>>
    tuition_run,            \* the tuition_runs row the last calculation committed, or None
    pending_number,         \* location slot: None or <<the number, as a string>>
    place_type,             \* location slot: None or <<kind>>
    program,                \* catalog slot: None or <<program, a sequence of characters>>
    semester,               \* catalog slot: None or <<semester, a sequence of characters>>
    form_requested_slot     \* catalog: the requested_slot slot of the form, None or <<name>>

\* The slots and the database row of the tuition bot.
tuitionVars == <<admission_group, faculty, general_credits, major_credits, tuition_run>>

\* The slots of the location bot.
locateVars == <<pending_number, place_type>>

\* The slots of the course-catalog bot.
catalogVars == <<program, semester, form_requested_slot>>

\* What the actions of the GPA bot leave alone.
otherVars == <<tuitionVars, locateVars, catalogVars>>

vars == <<number_of_courses, current_course_index, current_credit, current_score,
          courses, msgs, last, started, pairs, inSeq, otherVars>>

\* The history variables: they record what was delivered and are read by
\* no action of the program.
hist == <<started, pairs, inSeq>>

slots == <<number_of_courses, current_course_index, current_credit, current_score,
           courses>>

None == <<>>
Some(v) == <<v>>

\* A new conversation with the tuition bot: no slot is set, nothing saved.
TuitionInit ==
    /\ admission_group = None
    /\ faculty = None
    /\ general_credits = None
    /\ major_credits = None
    /\ tuition_run = None

\* A new conversation with the location bot: no slot is set.
LocateInit ==
    /\ pending_number = None
    /\ place_type = None

\* A new conversation with the course-catalog bot: no slot is set.
CatalogInit ==
    /\ program = None
    /\ semester = None
    /\ form_requested_slot = None

\* The bound of the model: no more than MaxLen courses are recorded.
MaxLen == 3

\* Program constants (whole units).
MAX_COURSES == 50
MAX_CREDIT == 30
MAX_SCORE == 100

\* H(x): the whole number x in half units.
H(x) == 2 * x

\* ---------------------------------------------------------------- inputs
\* Raw slot values a user can supply: None stands for any value float()
\* does not parse; the others are numbers in half units.
CountInputs == {None, Some(H(-1)), Some(H(0)), Some(H(1)), Some(H(2)), Some(5),
                Some(H(3)), Some(H(50)), Some(101), Some(H(51))}
CreditInputs == {None, Some(H(0)), Some(H(3)), Some(H(4)), Some(H(35))}
ScoreInputs == {None, Some(H(-5)), Some(H(70)), Some(189), Some(H(95)), Some(H(101))}

\* ---------------------------------------------------------------- helpers
\* Python's int(float(x)) on a number in half units: truncation toward zero.
IntOfFloat(h) == IF h >= 0 THEN h \div 2 ELSE -((-h) \div 2)

\* Python's `value or default` on a slot holding None or a number.
OrDefault(slot, default) == IF slot = None \/ slot = Some(0) THEN default ELSE slot[1]

\* ---------------------------------------------------------------- score_to_grade
NoGrade == [letter |-> "None", gpa |-> -1]
GradeMap(letter, gpa) == [letter |-> letter, gpa |-> gpa]

\* Mutant of score_to_grade: the 80-82 tier carries the point of 83-86.
score_to_grade_flatB(score) ==
    LET s == score IN
    IF s >= H(95) THEN GradeMap("A+", 40)
    ELSE IF H(90) <= s /\ s <= H(94) THEN GradeMap("A", 37)
    ELSE IF H(87) <= s /\ s <= H(89) THEN GradeMap("B+", 33)
    ELSE IF H(83) <= s /\ s <= H(86) THEN GradeMap("B", 30)
    ELSE IF H(80) <= s /\ s <= H(82) THEN GradeMap("B", 30)
    ELSE IF H(77) <= s /\ s <= H(79) THEN GradeMap("C+", 23)
    ELSE IF H(73) <= s /\ s <= H(76) THEN GradeMap("C", 20)
    ELSE IF H(70) <= s /\ s <= H(72) THEN GradeMap("C", 17)
    ELSE IF H(65) <= s /\ s <= H(69) THEN GradeMap("D", 13)
    ELSE IF H(60) <= s /\ s <= H(64) THEN GradeMap("D", 10)
    ELSE IF H(0) <= s /\ s <= H(59) THEN GradeMap("F", 0)
    ELSE NoGrade

\* score in half units; the result's gpa in tenths; NoGrade is Python's
\* implicit `return None` when no `if` matched.
score_to_grade(score) ==
    LET s == score IN
    IF s >= H(95) THEN GradeMap("A+", 40)
    ELSE IF H(90) <= s /\ s <= H(94) THEN GradeMap("A", 37)
    ELSE IF H(87) <= s /\ s <= H(89) THEN GradeMap("B+", 33)
    ELSE IF H(83) <= s /\ s <= H(86) THEN GradeMap("B", 30)
    ELSE IF H(80) <= s /\ s <= H(82) THEN GradeMap("B", 27)
    ELSE IF H(77) <= s /\ s <= H(79) THEN GradeMap("C+", 23)
    ELSE IF H(73) <= s /\ s <= H(76) THEN GradeMap("C", 20)
    ELSE IF H(70) <= s /\ s <= H(72) THEN GradeMap("C", 17)
    ELSE IF H(65) <= s /\ s <= H(69) THEN GradeMap("D", 13)
    ELSE IF H(60) <= s /\ s <= H(64) THEN GradeMap("D", 10)
    ELSE IF H(0) <= s /\ s <= H(59) THEN GradeMap("F", 0)
    ELSE NoGrade

\* ---------------------------------------------------------------- validators
\* Each validator is the function the code defines: from the raw slot value
\* and the tracker's slots to the dict of slot changes it returns (a record
\* whose fields are the slots it sets) and the message it utters.
Out(events, text) == [events |-> events, text |-> text]

\* Mutant of CountInRange: the lower bound is off by one.
CountInRange_from0(n) == 0 <= n /\ n <= MAX_COURSES

\* `1 <= n <= 50`
CountInRange(n) == 1 <= n /\ n <= MAX_COURSES

validate_number_of_courses(slot_value) ==
    IF slot_value = None
    THEN Out([number_of_courses |-> None], <<[text |-> "count_format"]>>)
    ELSE LET n == IntOfFloat(slot_value[1]) IN
         IF ~CountInRange(n)
         THEN Out([number_of_courses |-> None], <<[text |-> "count_range"]>>)
         ELSE Out([number_of_courses |-> Some(n),
                   current_course_index |-> Some(1),
                   courses |-> <<>>], <<>>)

\* Mutant of CreditInRange: the upper bound is missing.
CreditInRange_noUpper(c) == 0 < c

\* `0 < c <= 30`, c in half units
CreditInRange(c) == 0 < c /\ c <= H(MAX_CREDIT)

validate_current_credit(slot_value) ==
    IF slot_value = None
    THEN Out([current_credit |-> None], <<[text |-> "credit_format"]>>)
    ELSE LET c == slot_value[1] IN
         IF ~CreditInRange(c)
         THEN Out([current_credit |-> None], <<[text |-> "credit_range"]>>)
         ELSE Out([current_credit |-> Some(c)], <<>>)

\* Mutants of RecordCourse: the new course replaces the list; the new
\* course is put first.
RecordCourse_replaces(cs, credit, s) == <<[credit |-> credit, score |-> s]>>
RecordCourse_prepends(cs, credit, s) == <<[credit |-> credit, score |-> s]>> \o cs

\* courses.append({"credit": credit, "score": s})
RecordCourse(cs, credit, s) == Append(cs, [credit |-> credit, score |-> s])

\* Mutant of HasNextCourse: off by one.
HasNextCourse_strict(next_idx, n) == next_idx < n

\* `if next_idx <= n`: another course follows this one.
HasNextCourse(next_idx, n) == next_idx <= n

\* Mutant of ScoreInRange: the upper bound is missing.
ScoreInRange_noUpper(s) == 0 <= s

\* `0 <= s <= 100`, s in half units
ScoreInRange(s) == 0 <= s /\ s <= H(MAX_SCORE)

validate_current_score(slot_value) ==
    IF slot_value = None
    THEN Out([current_score |-> None], <<[text |-> "score_format"]>>)
    ELSE LET s == slot_value[1] IN
         IF ~ScoreInRange(s)
         THEN Out([current_score |-> None], <<[text |-> "score_range"]>>)
         ELSE LET n == OrDefault(number_of_courses, 0)
                  idx == OrDefault(current_course_index, 1)
                  credit == OrDefault(current_credit, 0)
                  appended == RecordCourse(courses, credit, s)
                  next_idx == idx + 1
              IN  IF HasNextCourse(next_idx, n)
                  THEN Out([courses |-> appended,
                            current_course_index |-> Some(next_idx),
                            current_credit |-> None,
                            current_score |-> None], <<>>)
                  ELSE Out([courses |-> appended, current_score |-> Some(s)], <<>>)

\* The validator accepts the value: it utters no error message.
Accepts(out) == out.text = <<>>

\* The slot events of a returned dict: the slots it names are set, the
\* others are left alone.
SetSlots(d) ==
    /\ number_of_courses' =
          IF "number_of_courses" \in DOMAIN d THEN d.number_of_courses
          ELSE number_of_courses
    /\ current_course_index' =
          IF "current_course_index" \in DOMAIN d THEN d.current_course_index
          ELSE current_course_index
    /\ current_credit' =
          IF "current_credit" \in DOMAIN d THEN d.current_credit ELSE current_credit
    /\ current_score' =
          IF "current_score" \in DOMAIN d THEN d.current_score ELSE current_score
    /\ courses' = IF "courses" \in DOMAIN d THEN d.courses ELSE courses

\* ---------------------------------------------------------------- the form
\* The validators are run by the form that collects the three slots: it
\* asks for the first required slot that is null and hands the answer to
\* that slot's validator, so a validator runs only in the state that asks
\* for its slot (AwaitingCount, AwaitingCredit(i), AwaitingScore(i), with
\* i = current_course_index).  When all three slots are filled the form is
\* complete and the report action follows.
\*
\* The slot the form asks for next; "none" when the form is complete.
requested_slot ==
    IF number_of_courses = None THEN "number_of_courses"
    ELSE IF current_credit = None THEN "current_credit"
    ELSE IF current_score = None THEN "current_score"
    ELSE "none"

AwaitingCount == requested_slot = "number_of_courses"
AwaitingCredit == requested_slot = "current_credit"
AwaitingScore == requested_slot = "current_score"
Complete == requested_slot = "none"

Init ==
    /\ number_of_courses = None
    /\ current_course_index = None
    /\ current_credit = None
    /\ current_score = None
    /\ courses = <<>>
    /\ msgs = <<>>
    /\ last = None
    /\ started = None
    /\ pairs = <<>>
    /\ inSeq = TRUE
    /\ TuitionInit
    /\ LocateInit
    /\ CatalogInit

\* The form validates the answer to "how many courses".
SubmitCount(v) ==
    /\ AwaitingCount
    /\ LET out == validate_number_of_courses(v) IN
       /\ SetSlots(out.events)
       /\ msgs' = out.text
       /\ last' = Some([slot |-> "number_of_courses", value |-> v])
       /\ IF Accepts(out)
          THEN started' = out.events.number_of_courses /\ pairs' = <<>> /\ inSeq' = TRUE
          ELSE UNCHANGED hist

\* The form validates the answer to the credit question.
SubmitCredit(v) ==
    /\ AwaitingCredit
    /\ LET out == validate_current_credit(v) IN
       /\ SetSlots(out.events)
       /\ msgs' = out.text
       /\ last' = Some([slot |-> "current_credit", value |-> v])
       /\ UNCHANGED hist

\* The form validates the answer to the score question.
SubmitScore(v) ==
    /\ AwaitingScore
    /\ LET out == validate_current_score(v) IN
       /\ Accepts(out) => Len(courses) < MaxLen
       /\ SetSlots(out.events)
       /\ msgs' = out.text
       /\ last' = Some([slot |-> "current_score", value |-> v])
       /\ pairs' = IF Accepts(out) /\ inSeq
                   THEN Append(pairs, [credit |-> current_credit[1], score |-> v[1]])
                   ELSE pairs
       /\ UNCHANGED <<started, inSeq>>

\* The upstream caller delivers the last validation step once more, with
\* the same value, on the tracker as it is now.  The validator checks the
\* value only, not the state it is delivered in.
Redeliver ==
    /\ last # None
    /\ LET step == last[1]
           out == IF step.slot = "number_of_courses"
                     THEN validate_number_of_courses(step.value)
                  ELSE IF step.slot = "current_credit"
                     THEN validate_current_credit(step.value)
                  ELSE validate_current_score(step.value)
       IN  /\ (step.slot = "current_score" /\ Accepts(out)) => Len(courses) < MaxLen
           /\ SetSlots(out.events)
           /\ msgs' = out.text
    /\ pairs' = <<>>
    /\ inSeq' = FALSE
    /\ UNCHANGED <<last, started>>

\* ---------------------------------------------------------------- prompts
\* The course number both prompts show.
PromptIndex == OrDefault(current_course_index, 1)

ActionAskCurrentCredit ==
    /\ LET idx == PromptIndex IN
       msgs' = <<[text |-> "ask_credit", idx |-> idx]>>
    /\ UNCHANGED <<slots, last, hist>>

ActionAskCurrentScore ==
    /\ LET idx == PromptIndex IN
       msgs' = <<[text |-> "ask_score", idx |-> idx]>>
    /\ UNCHANGED <<slots, last, hist>>

\* ---------------------------------------------------------------- the report
\* Python's format spec :g on a non-negative number in half units: the
\* whole part, and the digit after the point (0: no point is printed).
FormatG(h) == [whole |-> h \div 2, frac |-> 5 * (h % 2)]

\* One line of the breakdown: "{i}. {cr:g}кр - {sc:g}% -> {letter} ({gpa:.1f})".
ReportLine(i, c) ==
    LET g == score_to_grade(c.score) IN
    [i |-> i, cr |-> FormatG(c.credit), sc |-> FormatG(c.score),
     letter |-> g.letter, gpa |-> g.gpa]

\* Mutant of ReportLines: enumerate() without start=1.
ReportLines_from0(cs) == [i \in 1..Len(cs) |-> ReportLine(i - 1, cs[i])]

\* for i, c in enumerate(courses, start=1): lines.append(...)
ReportLines(cs) == [i \in 1..Len(cs) |-> ReportLine(i, cs[i])]

\* total_credits, in half units.
RECURSIVE TotalCredits(_)
TotalCredits(cs) ==
    IF cs = <<>> THEN 0 ELSE TotalCredits(SubSeq(cs, 1, Len(cs) - 1)) + cs[Len(cs)].credit

\* Mutant of TotalPoints: the grade points are summed without the credits.
RECURSIVE TotalPoints_unweighted(_)
TotalPoints_unweighted(cs) ==
    IF cs = <<>> THEN 0
    ELSE TotalPoints_unweighted(SubSeq(cs, 1, Len(cs) - 1))
         + H(1) * score_to_grade(cs[Len(cs)].score).gpa

\* total_points, in twentieths (half units of credit times tenths of a point).
RECURSIVE TotalPoints(_)
TotalPoints(cs) ==
    IF cs = <<>> THEN 0
    ELSE TotalPoints(SubSeq(cs, 1, Len(cs) - 1))
         + cs[Len(cs)].credit * score_to_grade(cs[Len(cs)].score).gpa

\* Mutant of Gpa: total_points is divided by the number of courses.
Gpa_byCount(cs) ==
    LET tc == TotalCredits(cs)
        tp == TotalPoints(cs)
    IN  IF tc > 0 THEN (5 * tp) \div Len(cs) ELSE 0

\* gpa as "{gpa:.2f}" prints it, in hundredths: total_points / total_credits
\* rounded to the nearest hundredth, 0.00 when there are no credits.
Gpa(cs) ==
    LET tc == TotalCredits(cs)
        tp == TotalPoints(cs)
    IN  IF tc > 0 THEN (2 * 10 * tp + tc) \div (2 * tc) ELSE 0

\* Mutant of ResetEvents: current_credit is not reset.
ResetEvents_keepsCredit ==
    [number_of_courses |-> None,
     current_course_index |-> Some(1),
     current_score |-> None,
     courses |-> <<>>]

\* Mutant of ResetEvents: courses is not reset.
ResetEvents_keepsCourses ==
    [number_of_courses |-> None,
     current_course_index |-> Some(1),
     current_credit |-> None,
     current_score |-> None]

\* The five SlotSet events both paths of action_calculate_gpa return.
ResetEvents ==
    [number_of_courses |-> None,
     current_course_index |-> Some(1),
     current_credit |-> None,
     current_score |-> None,
     courses |-> <<>>]

\* score_to_grade returned None for some course: `g.gpa` raises
\* AttributeError inside the loop, before anything is uttered or returned.
Raises(cs) == \E i \in 1..Len(cs) : score_to_grade(cs[i].score) = NoGrade

\* Mutant of NoCourses: the empty list is not told apart.
NoCourses_never(cs) == FALSE

\* `if not courses`
NoCourses(cs) == cs = <<>>

ActionCalculateGpa ==
    /\ IF NoCourses(courses)
       THEN /\ msgs' = <<[text |-> "no_courses"]>>
            /\ SetSlots(ResetEvents)
            /\ last' = None
            /\ UNCHANGED hist
       ELSE IF Raises(courses)
       THEN /\ msgs' = <<[text |-> "AttributeError"]>>
            /\ UNCHANGED <<slots, last, hist>>
       ELSE /\ msgs' = <<[text |-> "report",
                          lines |-> ReportLines(courses),
                          total_credits |-> FormatG(TotalCredits(courses)),
                          gpa |-> Gpa(courses)]>>
            /\ SetSlots(ResetEvents)
            /\ last' = None
            /\ UNCHANGED hist

Next ==
    \/ (\E v \in CountInputs : SubmitCount(v)) /\ UNCHANGED otherVars
    \/ (\E v \in CreditInputs : SubmitCredit(v)) /\ UNCHANGED otherVars
    \/ (\E v \in ScoreInputs : SubmitScore(v)) /\ UNCHANGED otherVars
    \/ Redeliver /\ UNCHANGED otherVars
    \/ ActionAskCurrentCredit /\ UNCHANGED otherVars
    \/ ActionAskCurrentScore /\ UNCHANGED otherVars
    \/ ActionCalculateGpa /\ UNCHANGED otherVars

Spec == Init /\ [][Next]_vars

\* ------------------------------------------------- the report on any entries
\* action_calculate_gpa reads the courses slot whatever filled it, so the
\* claims about the report as a function of the entries are checked on a
\* tracker whose courses slot holds any list of the sets below.
Entry(credit, score) == [credit |-> credit, score |-> score]

\* Credits (half units) and scores (half units) of the lists of any shape;
\* credit 0 is what `float(get_slot("current_credit") or 0)` records.
ReportCredits == {H(0), H(3), H(4)}
ReportScores == {H(0), H(70), 189, H(95)}

\* Every list of at most MaxLen entries over the two sets.
BoundedLists ==
    UNION {[1..k -> {Entry(cr, sc) : cr \in ReportCredits, sc \in ReportScores}] :
             k \in 0..MaxLen}

\* One entry for every whole score of 0..100, and every two neighbours.
WholeScoreLists ==
    {<<Entry(H(3), H(s))>> : s \in 0..MAX_SCORE}
      \cup {<<Entry(H(3), H(s)), Entry(H(4), H(s + 1))>> : s \in 0..(MAX_SCORE - 1)}

InitReport ==
    /\ courses \in BoundedLists \cup WholeScoreLists
    /\ number_of_courses = IF courses = <<>> THEN None ELSE Some(Len(courses))
    /\ current_course_index = IF courses = <<>> THEN Some(1) ELSE Some(Len(courses))
    /\ current_credit = IF courses = <<>> THEN None ELSE Some(courses[Len(courses)].credit)
    /\ current_score = IF courses = <<>> THEN None ELSE Some(courses[Len(courses)].score)
    /\ msgs = <<>>
    /\ last = None
    /\ started = None
    /\ pairs = <<>>
    /\ inSeq = FALSE
    /\ TuitionInit
    /\ LocateInit
    /\ CatalogInit

NextReport == ActionCalculateGpa /\ UNCHANGED otherVars

SpecReport == InitReport /\ [][NextReport]_vars

\* ---------------------------------------------------------- the tuition bot
\* NUM_PAYMENT/actions/actions.py.  Credits are in half units as above;
\* rates and amounts are whole numbers of the currency.

\* The slots and history of the GPA bot, without the dispatcher.
gpaIdle == <<number_of_courses, current_course_index, current_credit, current_score,
             courses, last, started, pairs, inSeq>>

\* What the actions of the tuition bot leave alone.
notTuition == <<gpaIdle, locateVars, catalogVars>>

\* The three admission groups of intent_to_group and `allowed`.
AdmissionGroups == {"before_2024_2025", "2024_2025", "2025_2026"}

\* Two of the faculties the action_set_faculty_* actions set, under the
\* names of those actions.
Faculties == {"science", "mtee"}

\* The pricing table _load_pricing() reads from pricing.yml: a sample with
\* one faculty missing under one group.
Pricing ==
    {[group |-> "before_2024_2025", faculty |-> "science", general |-> 100, major |-> 125],
     [group |-> "before_2024_2025", faculty |-> "mtee", general |-> 100, major |-> 131],
     [group |-> "2024_2025", faculty |-> "science", general |-> 110, major |-> 135],
     [group |-> "2024_2025", faculty |-> "mtee", general |-> 110, major |-> 141],
     [group |-> "2025_2026", faculty |-> "science", general |-> 120, major |-> 145]}

\* `group in pricing`
GroupInPricing(g) == \E r \in Pricing : r.group = g

\* `pricing[group][faculty]` does not raise.
HasRates(g, f) == \E r \in Pricing : r.group = g /\ r.faculty = f

\* rates = pricing[group][faculty]
Rates(g, f) == CHOOSE r \in Pricing : r.group = g /\ r.faculty = f

\* The raw values the credit validators are given: unparseable (None), -1,
\* 0, 2.5 and 3.
TuitionCreditInputs == {None, Some(H(-1)), Some(H(0)), Some(5), Some(H(3))}

\* The intents and the raw slot values validate_admission_group is given.
GroupIntents ==
    {"choose_admission_before_2024_2025", "choose_admission_2024_2025",
     "choose_admission_2025_2026", "inform"}
GroupInputs == AdmissionGroups \cup {"other"}

\* `intent in intent_to_group`
IsGroupIntent(intent) == intent # "inform"

\* intent_to_group[intent]
intent_to_group(intent) ==
    IF intent = "choose_admission_before_2024_2025" THEN "before_2024_2025"
    ELSE IF intent = "choose_admission_2024_2025" THEN "2024_2025"
    ELSE "2025_2026"

validate_admission_group(slot_value, intent) ==
    IF IsGroupIntent(intent)
    THEN Out([admission_group |-> Some(intent_to_group(intent))], <<>>)
    ELSE IF slot_value \in AdmissionGroups
    THEN Out([admission_group |-> Some(slot_value)], <<>>)
    ELSE Out([admission_group |-> None], <<[text |-> "group_choose"]>>)

validate_faculty(slot_value) ==
    IF admission_group = None \/ ~GroupInPricing(admission_group[1])
    THEN Out([faculty |-> None], <<[text |-> "faculty_group_first"]>>)
    ELSE IF HasRates(admission_group[1], slot_value)
    THEN Out([faculty |-> Some(slot_value)], <<>>)
    ELSE Out([faculty |-> None], <<[text |-> "faculty_choose"]>>)

\* `v is None or v < 0`, v = _to_float(slot_value)
BadCredits(slot_value) == slot_value = None \/ slot_value[1] < 0

validate_general_credits(slot_value) ==
    IF BadCredits(slot_value)
    THEN Out([general_credits |-> None], <<[text |-> "general_credits_range"]>>)
    ELSE Out([general_credits |-> slot_value], <<>>)

validate_major_credits(slot_value) ==
    IF BadCredits(slot_value)
    THEN Out([major_credits |-> None], <<[text |-> "major_credits_range"]>>)
    ELSE Out([major_credits |-> slot_value], <<>>)

\* The slot changes a tuition validator or setter returns, applied.
SetTuitionSlots(d) ==
    /\ admission_group' = IF "admission_group" \in DOMAIN d THEN d.admission_group
                          ELSE admission_group
    /\ faculty' = IF "faculty" \in DOMAIN d THEN d.faculty ELSE faculty
    /\ general_credits' = IF "general_credits" \in DOMAIN d THEN d.general_credits
                          ELSE general_credits
    /\ major_credits' = IF "major_credits" \in DOMAIN d THEN d.major_credits
                        ELSE major_credits

\* One step of validate_tuition_form: the validator's slots and message.
TuitionValidate(out) ==
    /\ SetTuitionSlots(out.events)
    /\ msgs' = out.text
    /\ UNCHANGED <<tuition_run, notTuition>>

\* action_set_admission_group_*: one SlotSet, no message.
ActionSetAdmission(g) ==
    /\ SetTuitionSlots([admission_group |-> Some(g)])
    /\ msgs' = <<>>
    /\ UNCHANGED <<tuition_run, notTuition>>

\* action_set_faculty_*: one SlotSet, no message.
ActionSetFaculty(f) ==
    /\ SetTuitionSlots([faculty |-> Some(f)])
    /\ msgs' = <<>>
    /\ UNCHANGED <<tuition_run, notTuition>>

\* int(round(n)) of fmt, n >= 0 given in half units: Python rounds a tie to
\* the even neighbour.
fmt(h) ==
    LET lo == h \div 2 IN
    IF h % 2 = 0 THEN lo ELSE IF lo % 2 = 0 THEN lo ELSE lo + 1

\* The advisory note of the `except` around the save, if it was taken.
SaveNote(db_ok) == IF db_ok THEN <<>> ELSE <<[text |-> "db_failed"]>>

\* Mutant of TuitionMessages: a failed save ends the action after the note.
TuitionMessages_stopsOnFailure(db_ok, report) ==
    IF db_ok THEN <<report>> ELSE SaveNote(db_ok)

\* What the action utters once the total is known: the note of a failed
\* save, then the report.
TuitionMessages(db_ok, report) == SaveNote(db_ok) \o <<report>>

\* The report: the two choices, the two lines of the calculation and the
\* total, amounts as fmt prints them.
TuitionReport(group, fac, gen_cr, maj_cr, gen_rate, maj_rate) ==
    LET total == gen_cr * gen_rate + maj_cr * maj_rate IN
    [text |-> "tuition_report", group |-> group, faculty |-> fac,
     gen_cr |-> gen_cr, gen_rate |-> fmt(H(gen_rate)), gen_cost |-> fmt(gen_cr * gen_rate),
     maj_cr |-> maj_cr, maj_rate |-> fmt(H(maj_rate)), maj_cost |-> fmt(maj_cr * maj_rate),
     total |-> fmt(total)]

\* The row the INSERT INTO tuition_runs writes; total_tuition in half units.
TuitionRow(group, fac, gen_cr, maj_cr, gen_rate, maj_rate) ==
    [admission_group |-> group, faculty |-> fac,
     general_credits |-> gen_cr, major_credits |-> maj_cr,
     general_rate |-> gen_rate, major_rate |-> maj_rate,
     total_tuition |-> gen_cr * gen_rate + maj_cr * maj_rate]

\* db_ok: the block that opens the database, inserts the row and commits
\* ran through (TRUE) or raised somewhere (FALSE).
ActionCalculateTuition(db_ok) ==
    LET gen_cr == OrDefault(general_credits, 0)
        maj_cr == OrDefault(major_credits, 0)
    IN
    /\ IF admission_group = None \/ faculty = None
       THEN /\ msgs' = <<[text |-> "tuition_incomplete"]>>
            /\ tuition_run' = None
       ELSE IF ~HasRates(admission_group[1], faculty[1])
       THEN /\ msgs' = <<[text |-> "tuition_no_price"]>>
            /\ tuition_run' = None
       ELSE LET group == admission_group[1]
                fac == faculty[1]
                rates == Rates(group, fac)
            IN  /\ tuition_run' =
                      IF db_ok
                      THEN Some(TuitionRow(group, fac, gen_cr, maj_cr,
                                           rates.general, rates.major))
                      ELSE None
                /\ msgs' = TuitionMessages(db_ok,
                              TuitionReport(group, fac, gen_cr, maj_cr,
                                            rates.general, rates.major))
    /\ UNCHANGED <<admission_group, faculty, general_credits, major_credits, notTuition>>

InitTuition ==
    /\ TuitionInit
    /\ LocateInit
    /\ CatalogInit
    /\ number_of_courses = None
    /\ current_course_index = None
    /\ current_credit = None
    /\ current_score = None
    /\ courses = <<>>
    /\ msgs = <<>>
    /\ last = None
    /\ started = None
    /\ pairs = <<>>
    /\ inSeq = TRUE

NextTuition ==
    \/ \E v \in GroupInputs, intent \in GroupIntents :
          TuitionValidate(validate_admission_group(v, intent))
    \/ \E v \in Faculties \cup {"other"} : TuitionValidate(validate_faculty(v))
    \/ \E v \in TuitionCreditInputs : TuitionValidate(validate_general_credits(v))
    \/ \E v \in TuitionCreditInputs : TuitionValidate(validate_major_credits(v))
    \/ \E g \in AdmissionGroups : ActionSetAdmission(g)
    \/ \E f \in Faculties : ActionSetFaculty(f)
    \/ \E db_ok \in BOOLEAN : ActionCalculateTuition(db_ok)

SpecTuition == InitTuition /\ [][NextTuition]_vars

\* --------------------------------------------------------- the location bot
\* NUM_LOCATE/actions/actions.py.  A message text is the sequence of its
\* words; the words that matter to the code are written in Latin letters:
\* "dotuur" and "hicheel" are the words detect_kind looks for, "bair" is the
\* word of BAIR_RE, "baiar" the spelling BAIR_LOOSE_RE matches, "list" a
\* word of is_list_request, and a number is the string of its digits.

\* What the actions of the location bot leave alone.
notLocate == <<gpaIdle, tuitionVars, catalogVars>>

\* Mutant of FORBIDDEN: nothing is forbidden.
FORBIDDEN_none == {}

FORBIDDEN == {<<"dorm", 4>>, <<"class", 6>>}

\* str(n) for n of 0..9 is NumberNames[n + 1]; int(s) is its inverse and
\* raises on any other string.
NumberNames == <<"0", "1", "2", "3", "4", "5", "6", "7", "8", "9">>
StrOfInt(n) == NumberNames[n + 1]
IsNumber(w) == \E n \in 1..Len(NumberNames) : NumberNames[n] = w
IntOfStr(w) == (CHOOSE n \in 1..Len(NumberNames) : NumberNames[n] = w) - 1

\* lower() of one word.
Lower(w) == IF w = "LIST" THEN "list" ELSE IF w = "Ger" THEN "ger" ELSE w

\* norm(s), word by word.
norm(text) == [i \in 1..Len(text) |-> Lower(text[i])]

detect_kind(text) ==
    LET t == norm(text) IN
    IF \E i \in 1..Len(t) : t[i] = "dotuur" THEN Some("dorm")
    ELSE IF \E i \in 1..Len(t) : t[i] = "hicheel" THEN Some("class")
    ELSE None

\* NUM_ONLY_RE.match: the text is a number and nothing else.
NUM_ONLY_RE(text) == Len(text) = 1 /\ IsNumber(text[1])

\* BAIR_RE.match: the text is a number followed by "bair" and nothing else.
BAIR_RE(text) == Len(text) = 2 /\ IsNumber(text[1]) /\ text[2] = "bair"

\* BAIR_LOOSE_RE.search: the places where a number is followed by "baiar".
BAIR_LOOSE_RE(text) ==
    {i \in 1..(Len(text) - 1) : IsNumber(text[i]) /\ text[i + 1] = "baiar"}

extract_number(text) ==
    IF NUM_ONLY_RE(text) THEN Some(IntOfStr(text[1]))
    ELSE IF BAIR_RE(text) THEN Some(IntOfStr(text[1]))
    ELSE IF BAIR_LOOSE_RE(text) # {}
    THEN LET i == CHOOSE i \in BAIR_LOOSE_RE(text) :
                     \A j \in BAIR_LOOSE_RE(text) : i <= j
         IN  Some(IntOfStr(text[i]))
    ELSE None

is_list_request(text) == norm(text) = <<"list">>

\* The places of locations.yml: a sample that holds both forbidden places,
\* a place without url and a place without kind and number.
RawPlaces ==
    << [kind |-> "dorm", number |-> Some(1), title |-> "Dorm 1", url |-> "maps/d1",
        aliases |-> <<"Ger">>],
       [kind |-> "dorm", number |-> Some(4), title |-> "Dorm 4", url |-> "maps/d4",
        aliases |-> <<"tsaiz">>],
       [kind |-> "class", number |-> Some(4), title |-> "Class 4", url |-> "",
        aliases |-> <<>>],
       [kind |-> "class", number |-> Some(6), title |-> "Class 6", url |-> "maps/c6",
        aliases |-> <<"zaal">>],
       [kind |-> "", number |-> None, title |-> "Library", url |-> "maps/lib",
        aliases |-> <<"library">>] >>

\* load_places keeps a raw place unless its (kind, number) is forbidden.
KeptPlace(p) == ~(p.number # None /\ <<p.kind, p.number[1]>> \in FORBIDDEN)

ALL_PLACES == SelectSeq(RawPlaces, KeptPlace)

\* _KIND_NUM_INDEX.get((kind, num)): the last kept place of that kind and
\* number, or None.
KIND_NUM_INDEX(kind, num) ==
    LET hits == {i \in 1..Len(ALL_PLACES) :
                    /\ ALL_PLACES[i].kind # ""
                    /\ ALL_PLACES[i].kind = kind
                    /\ ALL_PLACES[i].number = Some(num)}
    IN  IF hits = {} THEN None
        ELSE Some(ALL_PLACES[CHOOSE i \in hits : \A j \in hits : j <= i])

\* The (normalized alias, place) pairs in the order load_places inserts them.
RECURSIVE AliasEntries(_)
AliasEntries(ps) ==
    IF ps = <<>> THEN <<>>
    ELSE LET p == ps[Len(ps)] IN
         AliasEntries(SubSeq(ps, 1, Len(ps) - 1))
           \o [i \in 1..Len(p.aliases) |-> [alias |-> Lower(p.aliases[i]), place |-> p]]

ALIAS_ENTRIES == AliasEntries(ALL_PLACES)

\* _ALIAS_INDEX[a]: the place inserted last under the alias a.
AliasValue(a) ==
    LET hits == {i \in 1..Len(ALIAS_ENTRIES) : ALIAS_ENTRIES[i].alias = a}
    IN  ALIAS_ENTRIES[CHOOSE i \in hits : \A j \in hits : j <= i].place

\* _ALIAS_INDEX.get(ntext): the text is an alias.
ExactAlias(ntext) ==
    IF Len(ntext) = 1 /\ \E i \in 1..Len(ALIAS_ENTRIES) : ALIAS_ENTRIES[i].alias = ntext[1]
    THEN Some(AliasValue(ntext[1]))
    ELSE None

\* The first alias of the index, in insertion order, that the text contains.
ContainedAlias(ntext) ==
    LET hits == {i \in 1..Len(ALIAS_ENTRIES) :
                    \E k \in 1..Len(ntext) : ntext[k] = ALIAS_ENTRIES[i].alias}
    IN  IF hits = {} THEN None
        ELSE Some(AliasValue(ALIAS_ENTRIES[CHOOSE i \in hits : \A j \in hits : i <= j].alias))

\* What say_place utters for a place.
say_place(place) ==
    IF place.url # ""
    THEN <<[text |-> "place", title |-> place.title, url |-> place.url]>>
    ELSE <<[text |-> "place_no_url", title |-> place.title]>>

\* The titles of the list reply.
ListTitles == [i \in 1..Len(ALL_PLACES) |-> ALL_PLACES[i].title]

\* The replies that are fixed texts.
ForbiddenReply == <<[text |-> "forbidden"]>>
NumberNotFoundReply == <<[text |-> "number_not_found"]>>

\* int(str(pending_number)), None where it raises.
PendingInt(pending) ==
    IF IsNumber(pending[1]) THEN Some(IntOfStr(pending[1])) ELSE None

\* ActionSendLocation.run as a function of the message and the two slots:
\* the SlotSet events it returns and what it utters.
send_location(text, latest_intent) ==
    LET kind == detect_kind(text)
        num  == extract_number(text)
        chosen_kind == IF kind # None THEN kind
                       ELSE IF place_type \in {Some("class"), Some("dorm")} THEN place_type
                       ELSE None
        ntext == norm(text)
    IN
    IF latest_intent = "choose_place_type" /\ pending_number # None
    THEN IF chosen_kind = None
         THEN Out(<<>>, <<[text |-> "choose_kind_hint"]>>)
         ELSE LET pnum == PendingInt(pending_number) IN
              IF pnum # None /\ <<chosen_kind[1], pnum[1]>> \in FORBIDDEN
              THEN Out([pending_number |-> None, place_type |-> chosen_kind],
                       ForbiddenReply)
              ELSE IF pnum # None /\ KIND_NUM_INDEX(chosen_kind[1], pnum[1]) # None
              THEN Out([pending_number |-> None, place_type |-> chosen_kind],
                       say_place(KIND_NUM_INDEX(chosen_kind[1], pnum[1])[1]))
              ELSE Out([pending_number |-> None], NumberNotFoundReply)
    ELSE IF is_list_request(text)
    THEN Out(<<>>, <<[text |-> "list", titles |-> ListTitles]>>)
    ELSE IF /\ num # None /\ kind = None
            /\ (NUM_ONLY_RE(text) \/ BAIR_RE(text) \/ BAIR_LOOSE_RE(text) # {})
    THEN Out([pending_number |-> Some(StrOfInt(num[1]))],
             <<[text |-> "utter_ask_place_type"]>>)
    ELSE IF num # None /\ kind \in {Some("class"), Some("dorm")}
    THEN IF <<kind[1], num[1]>> \in FORBIDDEN
         THEN Out([place_type |-> kind, pending_number |-> None], ForbiddenReply)
         ELSE IF KIND_NUM_INDEX(kind[1], num[1]) # None
         THEN Out([place_type |-> kind, pending_number |-> None],
                  say_place(KIND_NUM_INDEX(kind[1], num[1])[1]))
         ELSE Out(<<>>, NumberNotFoundReply)
    ELSE IF ExactAlias(ntext) # None
    THEN Out(<<>>, say_place(ExactAlias(ntext)[1]))
    ELSE IF ContainedAlias(ntext) # None
    THEN Out(<<>>, say_place(ContainedAlias(ntext)[1]))
    ELSE Out(<<>>, <<[text |-> "not_found"]>>)

\* The SlotSet events of action_send_location, applied.
SetLocateSlots(d) ==
    /\ pending_number' = IF "pending_number" \in DOMAIN d THEN d.pending_number
                         ELSE pending_number
    /\ place_type' = IF "place_type" \in DOMAIN d THEN d.place_type ELSE place_type

ActionSendLocation(text, latest_intent) ==
    LET out == send_location(text, latest_intent) IN
    /\ SetLocateSlots(out.events)
    /\ msgs' = out.text
    /\ UNCHANGED notLocate

\* The words of a place kind and the digits the messages of the model use.
KindWords == {"dotuur", "hicheel"}
NumberWords == {"1", "4", "6", "9"}

\* The message texts: a bare number, a number with "bair", a kind, a kind
\* with a number in either spelling, list requests, aliases, anything else.
Texts ==
    {<<n>> : n \in NumberWords}
      \cup {<<n, "bair">> : n \in NumberWords}
      \cup {<<k>> : k \in KindWords}
      \cup {<<k, "bair">> : k \in KindWords}
      \cup {<<k, n, "baiar">> : k \in KindWords, n \in NumberWords}
      \cup {<<k, n, "bair">> : k \in KindWords, n \in NumberWords}
      \cup {<<"list">>, <<"LIST">>, <<"library">>, <<"tsaiz">>, <<"zaal">>,
            <<"hello">>, <<"hello", "Ger">>, <<"library", "ger">>}

Intents == {"choose_place_type", "ask_location"}

\* Any values of the two slots: they may be filled from outside the action.
InitLocate ==
    /\ pending_number \in {None, Some("4"), Some("abc")}
    /\ place_type \in {None, Some("class"), Some("dorm"), Some("other")}
    /\ TuitionInit
    /\ CatalogInit
    /\ number_of_courses = None
    /\ current_course_index = None
    /\ current_credit = None
    /\ current_score = None
    /\ courses = <<>>
    /\ msgs = <<>>
    /\ last = None
    /\ started = None
    /\ pairs = <<>>
    /\ inSeq = TRUE

NextLocate == \E text \in Texts, latest_intent \in Intents :
                 ActionSendLocation(text, latest_intent)

SpecLocate == InitLocate /\ [][NextLocate]_vars

\* --------------------------------------------------- the course-catalog bot
\* actions.py.  A text is the sequence of its characters; the Cyrillic
\* program names are written in Latin letters.

\* What the actions of the course-catalog bot leave alone.
notCatalog == <<gpaIdle, tuitionVars, locateVars>>

Fizik == <<"f", "i", "z", "i", "k">>
FizikElektronik ==
    <<"f", "i", "z", "i", "k", "-", "e", "l", "e", "k", "t", "r", "o", "n", "i", "k">>
FizikBagsh ==
    <<"f", "i", "z", "i", "k", "i", "i", "n", " ", "b", "o", "l", "o", "v", "s", "r",
      "o", "l", " ", "b", "a", "g", "s", "h">>

ALLOWED_PROGRAMS == {Fizik, FizikElektronik, FizikBagsh}

\* Mutant of ALLOWED_SEMESTERS: range(1, 10).
ALLOWED_SEMESTERS_to9 == {<<d>> : d \in {"1", "2", "3", "4", "5", "6", "7", "8", "9"}}

\* {str(i) for i in range(1, 9)}
ALLOWED_SEMESTERS == {<<d>> : d \in {"1", "2", "3", "4", "5", "6", "7", "8"}}

\* COURSES.get(program, {}).get(semester, []): every program of the table
\* has the semesters "1" to "8", each with five courses, here numbered.
COURSES(prog, sem) ==
    IF prog \in {Some(Fizik), Some(FizikElektronik), Some(FizikBagsh)}
       /\ sem \in {Some(<<d>>) : d \in {"1", "2", "3", "4", "5", "6", "7", "8"}}
    THEN [i \in 1..5 |-> [program |-> prog[1], semester |-> sem[1], course |-> i]]
    ELSE <<>>

\* str.strip(): without the blanks at both ends.
strip(text) ==
    LET idx == {i \in 1..Len(text) : text[i] # " "} IN
    IF idx = {} THEN <<>>
    ELSE SubSeq(text, CHOOSE i \in idx : \A j \in idx : i <= j,
                      CHOOSE i \in idx : \A j \in idx : j <= i)

\* str.lower(), for the capital letters the inputs use.
LowerChar(ch) ==
    IF ch = "F" THEN "f" ELSE IF ch = "I" THEN "i" ELSE IF ch = "Z" THEN "z"
    ELSE IF ch = "K" THEN "k" ELSE ch
lower(text) == [i \in 1..Len(text) |-> LowerChar(text[i])]

normalize_program(text) == lower(strip(text))

\* ch.isdigit(): the ASCII digits, and other digits of Unicode such as the
\* superscript two, written "sup2".
isdigit(ch) == ch \in {"0", "1", "2", "3", "4", "5", "6", "7", "8", "9", "sup2"}

normalize_semester(text) ==
    LET t == strip(text)
        digits == SelectSeq(t, isdigit)
    IN  IF digits # <<>> THEN digits ELSE t

validate_program(slot_value) ==
    IF slot_value = None THEN Out([program |-> None], <<>>)
    ELSE LET prog == normalize_program(slot_value[1]) IN
         IF prog \in ALLOWED_PROGRAMS THEN Out([program |-> Some(prog)], <<>>)
         ELSE Out([program |-> None], <<[text |-> "program_invalid"]>>)

validate_semester(slot_value) ==
    IF slot_value = None THEN Out([semester |-> None], <<>>)
    ELSE LET sem == normalize_semester(slot_value[1]) IN
         IF sem \in ALLOWED_SEMESTERS THEN Out([semester |-> Some(sem)], <<>>)
         ELSE Out([semester |-> None], <<[text |-> "semester_invalid"]>>)

\* The raw values of the program slot: unset, the three programs in some
\* spelling, another program, a blank and the empty string.
ProgramInputs ==
    {None, Some(Fizik), Some(<<" ", "F", "I", "Z", "I", "K", " ">>),
     Some(FizikElektronik), Some(FizikBagsh),
     Some(<<"h", "i", "m", "i">>), Some(<<" ">>), Some(<<>>)}

\* The raw values of the semester slot: unset, "1", "5", "8", " 3", "3r",
\* "-3", "0", "9", "18", "3.0", "a", superscript two and the empty string.
SemesterInputs ==
    {None, Some(<<"1">>), Some(<<"5">>), Some(<<"8">>), Some(<<" ", "3">>),
     Some(<<"3", "r">>),
     Some(<<"-", "3">>), Some(<<"0">>), Some(<<"9">>), Some(<<"1", "8">>),
     Some(<<"3", ".", "0">>), Some(<<"a">>), Some(<<"sup2">>), Some(<<>>)}

\* One step of validate_program_semester_form for the program slot.
ValidateProgram(slot_value) ==
    LET out == validate_program(slot_value) IN
    /\ program' = out.events.program
    /\ msgs' = out.text
    /\ UNCHANGED <<semester, form_requested_slot, notCatalog>>

\* One step of validate_program_semester_form for the semester slot.
ValidateSemester(slot_value) ==
    LET out == validate_semester(slot_value) IN
    /\ semester' = out.events.semester
    /\ msgs' = out.text
    /\ UNCHANGED <<program, form_requested_slot, notCatalog>>

ActionShowCourses ==
    LET program_norm == IF program # None /\ program # Some(<<>>)
                        THEN Some(normalize_program(program[1])) ELSE None
        semester_norm == IF semester # None /\ semester # Some(<<>>)
                         THEN Some(normalize_semester(semester[1])) ELSE None
        found == COURSES(program_norm, semester_norm)
    IN
    /\ IF found = <<>>
       THEN msgs' = <<[text |-> "courses_not_found"]>>
       ELSE msgs' = <<[text |-> "courses", program |-> program_norm[1],
                       semester |-> semester_norm[1], lines |-> found]>>
    /\ UNCHANGED <<catalogVars, notCatalog>>

ActionResetSlots ==
    /\ program' = None
    /\ semester' = None
    /\ form_requested_slot' = None
    /\ msgs' = <<>>
    /\ UNCHANGED notCatalog

\* The form's requested_slot is whatever the framework left there.
InitCatalog ==
    /\ program = None
    /\ semester = None
    /\ form_requested_slot \in {None, Some("program"), Some("semester")}
    /\ TuitionInit
    /\ LocateInit
    /\ number_of_courses = None
    /\ current_course_index = None
    /\ current_credit = None
    /\ current_score = None
    /\ courses = <<>>
    /\ msgs = <<>>
    /\ last = None
    /\ started = None
    /\ pairs = <<>>
    /\ inSeq = TRUE

NextCatalog ==
    \/ \E v \in ProgramInputs : ValidateProgram(v)
    \/ \E v \in SemesterInputs : ValidateSemester(v)
    \/ ActionShowCourses
    \/ ActionResetSlots

SpecCatalog == InitCatalog /\ [][NextCatalog]_vars
\* ================================================================ claims
IsReport(m) == m # <<>> /\ m[1].text = "report"

\* The last step the form delivered was a score that validation accepts.
LastIsAcceptedScore ==
    /\ last # None
    /\ last[1].slot = "current_score"
    /\ last[1].value # None
    /\ 0 <= last[1].value[1] /\ last[1].value[1] <= H(MAX_SCORE)

\* C1: every score in [0,100] that validate_current_score accepted and
\* recorded, non-integer scores included, has a grade: score_to_grade
\* returns a (letter, point) tier for it.
C1_EveryRecordedScoreHasAGrade ==
    \A i \in 1..Len(courses) : score_to_grade(courses[i].score) # NoGrade

\* C2: a second delivery of an accepted score step, after its entry was
\* recorded, is a no-op: entries does not change (no duplicate entry, the
\* same length) and neither does the sum of the credits.
C2_RedeliveredScoreIsNoOp ==
    [][(Redeliver /\ LastIsAcceptedScore)
          => /\ courses' = courses
             /\ TotalCredits(courses') = TotalCredits(courses)]_vars

\* The step is the form's validation of an accepted score v.
AcceptedScoreStep(v) == SubmitScore(v) /\ Accepts(validate_current_score(v))

C5_LenIsIndexMinusOne ==
    (number_of_courses # None /\ ~Complete)
       => Len(courses) = OrDefault(current_course_index, 1) - 1

\* C6: with expected_count set, 1 <= current_index <= expected_count + 1
\* and entries is no longer than expected_count.
C6_IndexAndLengthInRange ==
    number_of_courses # None =>
       /\ 1 <= OrDefault(current_course_index, 1)
       /\ OrDefault(current_course_index, 1) <= number_of_courses[1] + 1
       /\ Len(courses) <= number_of_courses[1]

\* C7: every stored entry has 0 < credit <= MAX_CREDIT and a score in
\* [0,100].
C7_EntriesHavePositiveCredit ==
    \A i \in 1..Len(courses) :
       /\ 0 < courses[i].credit /\ courses[i].credit <= H(MAX_CREDIT)
       /\ 0 <= courses[i].score /\ courses[i].score <= H(MAX_SCORE)

IsPrefix(a, b) == Len(a) <= Len(b) /\ SubSeq(b, 1, Len(a)) = a

\* C8: every step other than the final report keeps the recorded entries
\* as a prefix of the entries after it and does not move current_index
\* back.
C8_EntriesOnlyGrow ==
    [][ActionCalculateGpa
       \/ /\ IsPrefix(courses, courses')
          /\ OrDefault(current_course_index', 1) >= OrDefault(current_course_index, 1)]_vars

\* C8 witness: an accepted score was appended after an entry recorded
\* earlier.
C8_Witness ==
    /\ LastIsAcceptedScore /\ inSeq
    /\ Len(courses) >= 2
    /\ OrDefault(current_course_index, 1) >= 2

\* C9: the report of a session of n courses, produced after exactly n
\* accepted credit/score pairs, has n course lines numbered 1..n.
C9_ReportHasNLines ==
    (IsReport(msgs) /\ inSeq /\ started # None /\ Len(pairs) = started[1]) =>
       /\ Len(msgs[1].lines) = started[1]
       /\ \A k \in 1..Len(msgs[1].lines) : msgs[1].lines[k].i = k

\* C9 witness: the report of a completed session of three courses.
C9_Witness ==
    /\ IsReport(msgs) /\ inSeq
    /\ started = Some(3) /\ Len(pairs) = 3
    /\ Len(msgs[1].lines) = 3

\* C10: the k-th line of the report shows the credit and the score of the
\* k-th accepted credit/score pair of the session.
C10_ReportKeepsOrder ==
    (IsReport(msgs) /\ inSeq) =>
       /\ Len(msgs[1].lines) = Len(pairs)
       /\ \A k \in 1..Len(pairs) :
             /\ msgs[1].lines[k].cr = FormatG(pairs[k].credit)
             /\ msgs[1].lines[k].sc = FormatG(pairs[k].score)

\* C10 witness: a report of three courses whose scores and credits are in
\* no sorted order.
C10_Witness ==
    /\ IsReport(msgs) /\ inSeq /\ Len(pairs) = 3
    /\ pairs[1].score < pairs[2].score /\ pairs[2].score > pairs[3].score
    /\ pairs[1].credit > pairs[2].credit /\ pairs[2].credit < pairs[3].credit
    /\ Len(msgs[1].lines) = 3

\* The message the last action uttered is the error message `text`.
Uttered(m, text) == m = <<[text |-> text]>>

\* C11: a count submission whose value is a whole number outside 1..50 is
\* rejected: number_of_courses stays unset (the state remains
\* AwaitingCount), current_index and entries are unchanged, and the range
\* error message is uttered.
C11_CountOutOfRangeRejected ==
    [][\A v \in CountInputs :
          (/\ SubmitCount(v)
           /\ v # None
           /\ v[1] % 2 = 0
           /\ ~(H(1) <= v[1] /\ v[1] <= H(MAX_COURSES)))
          => /\ number_of_courses' = None
             /\ AwaitingCount'
             /\ current_course_index' = current_course_index
             /\ courses' = courses
             /\ Uttered(msgs', "count_range")]_vars

\* C11 witness: start(51) was just rejected, after an earlier session.
C11_Witness ==
    /\ last = Some([slot |-> "number_of_courses", value |-> Some(H(51))])
    /\ Uttered(msgs, "count_range")
    /\ AwaitingCount
    /\ current_course_index = Some(1)
    /\ started # None

\* C12: a count submission whose value is a number that is not whole
\* (2.5, 50.5) is rejected: number_of_courses is not set from it and an
\* error message is uttered.
C12_FractionalCountRejected ==
    [][\A v \in CountInputs :
          (SubmitCount(v) /\ v # None /\ v[1] % 2 = 1)
          => /\ number_of_courses' = None
             /\ msgs' # <<>>]_vars

\* C13: a credit submission in AwaitingCredit(i) whose value is <= 0, > 30
\* or unparseable is rejected: pending_credit stays null, current_index,
\* expected_count and entries are unchanged, an error message is uttered,
\* and the credit prompt that follows shows the same index i.
C13_BadCreditRejected ==
    [][\A v \in CreditInputs :
          (/\ SubmitCredit(v)
           /\ (v = None \/ v[1] <= 0 \/ v[1] > H(MAX_CREDIT)))
          => /\ current_credit' = None
             /\ UNCHANGED <<number_of_courses, current_course_index, courses>>
             /\ IF v = None THEN Uttered(msgs', "credit_format")
                ELSE Uttered(msgs', "credit_range")
             /\ AwaitingCredit'
             /\ PromptIndex' = PromptIndex]_vars

\* C13 witness: supplyCredit(35) was just rejected for the second course.
C13_Witness ==
    /\ last = Some([slot |-> "current_credit", value |-> Some(H(35))])
    /\ Uttered(msgs, "credit_range")
    /\ AwaitingCredit /\ inSeq
    /\ current_course_index = Some(2)
    /\ Len(courses) = 1

\* C14: a score submission in AwaitingScore(i) whose value is < 0, > 100
\* or unparseable is rejected: no entry is appended, pending_credit,
\* current_index and expected_count are unchanged, and the state remains
\* AwaitingScore(i).
C14_BadScoreRejected ==
    [][\A v \in ScoreInputs :
          (/\ SubmitScore(v)
           /\ (v = None \/ v[1] < 0 \/ v[1] > H(MAX_SCORE)))
          => /\ courses' = courses
             /\ UNCHANGED <<number_of_courses, current_course_index, current_credit>>
             /\ IF v = None THEN Uttered(msgs', "score_format")
                ELSE Uttered(msgs', "score_range")
             /\ AwaitingScore']_vars

\* C14 witness: supplyScore(101) was just rejected for the second course.
C14_Witness ==
    /\ last = Some([slot |-> "current_score", value |-> Some(H(101))])
    /\ Uttered(msgs, "score_range")
    /\ AwaitingScore /\ inSeq
    /\ current_course_index = Some(2)
    /\ Len(courses) = 1

\* The report that was just sent has no credits in total.
ReportHasNoCredits == msgs[1].total_credits = FormatG(0)

\* C15: the GPA of every report lies in 0..4.00, and it is 0.00 whenever the
\* total of the credits is 0.
C15_GpaInRange ==
    IsReport(msgs) =>
       /\ 0 <= msgs[1].gpa /\ msgs[1].gpa <= 400
       /\ ReportHasNoCredits => msgs[1].gpa = 0

\* C15 witness: a report on two entries of credit 0, with a GPA of 0.00.
C15_Witness ==
    /\ IsReport(msgs)
    /\ Len(msgs[1].lines) = 2
    /\ ReportHasNoCredits
    /\ msgs[1].gpa = 0
    /\ msgs[1].lines[1].letter = "A+"

\* Sum of the credits of the pairs, in half units, from the first pair on.
RECURSIVE SumCredits(_)
SumCredits(ps) == IF ps = <<>> THEN 0 ELSE Head(ps).credit + SumCredits(Tail(ps))

\* The breakpoint table, highest tier first: lowest whole score of the tier,
\* letter, grade point in tenths.
GradeTable ==
    << [from |-> 95, letter |-> "A+", point |-> 40],
       [from |-> 90, letter |-> "A",  point |-> 37],
       [from |-> 87, letter |-> "B+", point |-> 33],
       [from |-> 83, letter |-> "B",  point |-> 30],
       [from |-> 80, letter |-> "B",  point |-> 27],
       [from |-> 77, letter |-> "C+", point |-> 23],
       [from |-> 73, letter |-> "C",  point |-> 20],
       [from |-> 70, letter |-> "C",  point |-> 17],
       [from |-> 65, letter |-> "D",  point |-> 13],
       [from |-> 60, letter |-> "D",  point |-> 10],
       [from |-> 0,  letter |-> "F",  point |-> 0] >>

\* The first row of the table a whole score of 0..100 reaches.
TableGrade(s) ==
    GradeTable[CHOOSE k \in 1..Len(GradeTable) :
                  /\ s >= GradeTable[k].from
                  /\ \A j \in 1..(k - 1) : s < GradeTable[j].from]

\* Sum of credit times table point of the pairs, in twentieths.
RECURSIVE SumPoints(_)
SumPoints(ps) ==
    IF ps = <<>> THEN 0
    ELSE Head(ps).credit * TableGrade(Head(ps).score \div 2).point + SumPoints(Tail(ps))

\* The session of the scenario: credit 3 score 95, then credit 4 score 70.
Scenario == <<Entry(H(3), H(95)), Entry(H(4), H(70))>>

\* C16: the report on the accepted pairs of a session shows the sum of their
\* credits as the total, and as GPA the sum of credit x grade point divided
\* by that total, to the nearest hundredth; for credit 3 score 95, credit 4
\* score 70 the total is 7, the points are 18.8 and the GPA shown is 2.69.
C16_ReportTotals ==
    (IsReport(msgs) /\ inSeq) =>
       LET tc == SumCredits(pairs)
           tp == SumPoints(pairs)
           d  == 2 * msgs[1].gpa * tc - 2 * 10 * tp
       IN  /\ msgs[1].total_credits = FormatG(tc)
           /\ -tc <= d /\ d <= tc
           /\ pairs = Scenario =>
                 /\ msgs[1].total_credits = [whole |-> 7, frac |-> 0]
                 /\ tp = 376
                 /\ msgs[1].gpa = 269

\* C16 witness: the report of the scenario's session.
C16_Witness ==
    /\ IsReport(msgs) /\ inSeq
    /\ started = Some(2)
    /\ pairs = Scenario
    /\ msgs[1].gpa = 269

\* The whole scores a report line can show.
IsWholeScore(sc) == sc.frac = 0 /\ sc.whole \in 0..MAX_SCORE

\* C17: every report line on a whole score of 0..100 shows the letter and
\* the point of the table row the score reaches (a score equal to a
\* breakpoint reaches the tier that starts there), and of two lines the one
\* with the higher score never shows the lower point.
C17_GradeMatchesTable ==
    IsReport(msgs) =>
       LET lines == msgs[1].lines IN
       /\ \A k \in 1..Len(lines) :
             IsWholeScore(lines[k].sc) =>
                /\ lines[k].letter = TableGrade(lines[k].sc.whole).letter
                /\ lines[k].gpa = TableGrade(lines[k].sc.whole).point
       /\ \A j, k \in 1..Len(lines) :
             (/\ IsWholeScore(lines[j].sc) /\ IsWholeScore(lines[k].sc)
              /\ lines[j].sc.whole <= lines[k].sc.whole)
             => lines[j].gpa <= lines[k].gpa

\* C17 witness: a report on the scores 89 and 90, either side of a breakpoint.
C17_Witness ==
    /\ IsReport(msgs)
    /\ Len(msgs[1].lines) = 2
    /\ msgs[1].lines[1].sc = [whole |-> 89, frac |-> 0]
    /\ msgs[1].lines[1].letter = "B+"
    /\ msgs[1].lines[2].sc = [whole |-> 90, frac |-> 0]
    /\ msgs[1].lines[2].letter = "A" /\ msgs[1].lines[2].gpa = 37

\* C18: when action_calculate_gpa has sent the report or the message that
\* there are no courses, all five slots are reset: number_of_courses,
\* current_credit and current_score unset, current_course_index 1, courses
\* empty.
C18_ReportResetsSlots ==
    (IsReport(msgs) \/ Uttered(msgs, "no_courses")) =>
       /\ number_of_courses = None
       /\ current_course_index = Some(1)
       /\ current_credit = None
       /\ current_score = None
       /\ courses = <<>>

\* C18 witness: the report of a completed session of two courses was sent
\* and the slots are those of a new session.
C18_Witness ==
    /\ IsReport(msgs) /\ inSeq
    /\ started = Some(2) /\ Len(pairs) = 2
    /\ Len(msgs[1].lines) = 2
    /\ AwaitingCount
    /\ current_course_index = Some(1)
    /\ courses = <<>>

\* C19: when a session started with n has had its n credit/score pairs
\* accepted in order and is Complete, action_calculate_gpa sends the report.
C19_CompleteSessionIsReported ==
    [][(/\ Complete /\ inSeq
        /\ started # None /\ Len(pairs) = started[1]
        /\ ActionCalculateGpa)
       => IsReport(msgs')]_vars

\* A prompt action takes a step.
AskStep == ActionAskCurrentCredit \/ ActionAskCurrentScore

\* C22: the prompt actions change no slot, the course number they show is
\* current_course_index (1 when unset), and while the form is collecting a
\* credit or a score that number is the number of entries plus one.
C22_PromptShowsNextCourse ==
    [][AskStep =>
          /\ UNCHANGED slots
          /\ msgs'[1].idx = (IF current_course_index = None THEN 1
                             ELSE current_course_index[1])
          /\ (AwaitingCredit \/ AwaitingScore) => msgs'[1].idx = Len(courses) + 1]_vars

\* C23: action_calculate_gpa on an empty courses slot utters the message that
\* there are no courses and nothing else (no lines, no total, no GPA), and
\* resets the five slots.
C23_EmptyCoursesRejected ==
    [][(courses = <<>> /\ ActionCalculateGpa) =>
          /\ Uttered(msgs', "no_courses")
          /\ number_of_courses' = None
          /\ current_course_index' = Some(1)
          /\ current_credit' = None
          /\ current_score' = None
          /\ courses' = <<>>]_vars

\* C23 witness: the action ran on a session that had been started with 2
\* and had no entry yet.
C23_Witness ==
    /\ Uttered(msgs, "no_courses")
    /\ started = Some(2) /\ pairs = <<>> /\ inSeq
    /\ AwaitingCount
    /\ courses = <<>>

\* The tuition form has what the calculation needs: both choices are made
\* and the table has their rates.
TuitionReady ==
    /\ admission_group # None /\ faculty # None
    /\ HasRates(admission_group[1], faculty[1])

\* The total the report shows for the slots as they are: general credits
\* times the general rate plus major credits times the major rate, rounded
\* to a whole amount (a half goes to the even neighbour).
ExpectedTotal ==
    LET r  == Rates(admission_group[1], faculty[1])
        g  == IF general_credits = None THEN 0 ELSE general_credits[1]
        m  == IF major_credits = None THEN 0 ELSE major_credits[1]
        t2 == g * r.general + m * r.major
    IN  IF t2 % 2 = 0 THEN t2 \div 2
        ELSE IF (t2 \div 2) % 2 = 0 THEN t2 \div 2 ELSE t2 \div 2 + 1

\* C21: whenever action_calculate_tuition runs on a ready form, the last
\* message it utters is the calculation report with the total of the slots,
\* whether the save went through or raised; when it raised, nothing is
\* committed and the one other message is the advisory note, uttered before
\* the report.
C21_FailedSaveStillReports ==
    [][\A db_ok \in BOOLEAN :
          (TuitionReady /\ ActionCalculateTuition(db_ok)) =>
             LET report == msgs'[Len(msgs')] IN
             /\ report.text = "tuition_report"
             /\ report.total = ExpectedTotal
             /\ IF tuition_run' = None
                THEN msgs' = <<[text |-> "db_failed"], report>>
                ELSE msgs' = <<report>>]_vars

\* C21 witness: the save raised on 3 general and 2.5 major credits of
\* "science" under "before_2024_2025"; the note and the report with the
\* total of 300 + 312.5, shown as 612, were uttered.
C21_Witness ==
    /\ Len(msgs) = 2
    /\ msgs[1] = [text |-> "db_failed"]
    /\ msgs[2].text = "tuition_report"
    /\ msgs[2].total = 612
    /\ tuition_run = None
    /\ general_credits = Some(H(3)) /\ major_credits = Some(5)
    /\ admission_group = Some("before_2024_2025") /\ faculty = Some("science")

\* The two places that must not be disclosed, and the titles they carry in
\* the places file.
ForbiddenPlaces == {<<"dorm", 4>>, <<"class", 6>>}
ForbiddenTitles == {"Dorm 4", "Class 6"}

\* A message of m shows a forbidden place, alone or in the list.
Discloses(m) ==
    \E i \in 1..Len(m) :
       \/ /\ m[i].text \in {"place", "place_no_url"}
          /\ m[i].title \in ForbiddenTitles
       \/ /\ m[i].text = "list"
          /\ \E k \in 1..Len(m[i].titles) : m[i].titles[k] \in ForbiddenTitles

\* The message answers the clarification question for the pending number.
IsClarification(latest_intent) ==
    latest_intent = "choose_place_type" /\ pending_number # None

\* The kind a clarification gives: that of its text, else the place_type slot.
ClarifiedKind(text) ==
    IF detect_kind(text) # None THEN detect_kind(text)
    ELSE IF place_type \in {Some("class"), Some("dorm")} THEN place_type
    ELSE None

\* The message asks for a forbidden place: as the kind that completes the
\* pending number, or as kind and number in one text.
AsksForbidden(text, latest_intent) ==
    IF IsClarification(latest_intent)
    THEN /\ ClarifiedKind(text) # None
         /\ IsNumber(pending_number[1])
         /\ <<ClarifiedKind(text)[1], IntOfStr(pending_number[1])>> \in ForbiddenPlaces
    ELSE /\ ~is_list_request(text)
         /\ detect_kind(text) # None
         /\ extract_number(text) # None
         /\ <<detect_kind(text)[1], extract_number(text)[1]>> \in ForbiddenPlaces

\* C24: no reply of action_send_location shows dormitory 4 or class
\* building 6, neither as a place nor in the list; a request for one of
\* them by kind and number, in one text or as the answer to the
\* clarification question, gets the not-available reply and leaves
\* pending_number unset.
C24_ForbiddenNeverDisclosed ==
    [][\A text \in Texts, latest_intent \in Intents :
          ActionSendLocation(text, latest_intent) =>
             /\ ~Discloses(msgs')
             /\ AsksForbidden(text, latest_intent) =>
                   /\ Uttered(msgs', "forbidden")
                   /\ pending_number' = None]_vars

\* C24 witness: the answer "dormitory" to the clarification of number 4 was
\* refused.
C24_Witness ==
    /\ Uttered(msgs, "forbidden")
    /\ pending_number = None
    /\ place_type = Some("dorm")

\* The reply m is the outcome of a lookup by kind and number.
IsLookupOutcome(m) ==
    m # <<>> /\ m[1].text \in {"place", "place_no_url", "forbidden", "number_not_found"}

\* C25: while pending_number is set, every message that determines a kind
\* and ends in a lookup outcome (place found, forbidden, not found) clears
\* pending_number.
C25_LookupClearsPending ==
    [][\A text \in Texts, latest_intent \in Intents :
          (/\ pending_number # None
           /\ ActionSendLocation(text, latest_intent)
           /\ detect_kind(text) # None
           /\ IsLookupOutcome(msgs'))
          => pending_number' = None]_vars

\* The three programs and the eight semesters, as the slots may hold them.
ThreePrograms == {Fizik, FizikElektronik, FizikBagsh}
EightSemesters == {<<"1">>, <<"2">>, <<"3">>, <<"4">>, <<"5">>, <<"6">>, <<"7">>, <<"8">>}

\* C26: validate_program stores a program of the three, in normalized
\* spelling, or null; validate_semester stores a semester of "1".."8" or
\* null; a null result for a non-null input comes with the error message
\* and for a null input without; and action_show_courses on a form with both
\* slots filled shows the five courses of that program and semester, never
\* the not-found reply.
C26_ValidatedPairHasCourses ==
    [][/\ \A v \in ProgramInputs :
             ValidateProgram(v) =>
                /\ program' = None \/ (program' # None /\ program'[1] \in ThreePrograms)
                /\ (program' = None /\ v # None) => Uttered(msgs', "program_invalid")
                /\ (program' # None \/ v = None) => msgs' = <<>>
       /\ \A v \in SemesterInputs :
             ValidateSemester(v) =>
                /\ semester' = None \/ (semester' # None /\ semester'[1] \in EightSemesters)
                /\ (semester' = None /\ v # None) => Uttered(msgs', "semester_invalid")
                /\ (semester' # None \/ v = None) => msgs' = <<>>
       /\ (ActionShowCourses /\ program # None /\ semester # None) =>
             /\ msgs'[1].text = "courses"
             /\ msgs'[1].program = program[1]
             /\ msgs'[1].semester = semester[1]
             /\ Len(msgs'[1].lines) = 5]_vars

\* C26 witness: the courses of semester 3 of the program given as " FIZIK "
\* were shown.
C26_Witness ==
    /\ msgs # <<>>
    /\ msgs[1].text = "courses"
    /\ msgs[1].program = Fizik
    /\ msgs[1].semester = <<"3">>
    /\ program = Some(Fizik) /\ semester = Some(<<"3">>)
====
